---- MODULE Spec2Model ----
(***************************************************************************)
(* Merkle tree construction of sigrvn/hashtree.                            *)
(*                                                                         *)
(*   Spec      src/tree.rs      HashTree::new(B).from_data(stream)         *)
(*   SpecEq    src/tree.rs      impl PartialEq for HashTree                *)
(*   SpecFile  src/hashtree.rs  HashTree::from_file(path)                  *)
(*   SpecLib   src/lib.rs       HashTree::new(reader, strategy), clone, == *)
(*                                                                         *)
(* A digest is abstracted to one byte (the real SHA-256 digest has 32);    *)
(* String::from_utf8 is modelled on that byte exactly as on real bytes.    *)
(* The hash function is an unknown deterministic function: its values are  *)
(* chosen when first needed and remembered in `sha`.                       *)
(***************************************************************************)
EXTENDS Integers, Sequences, FiniteSets, TLC

\* ---------------------------------------------------------------- bounds
MaxLen == 3
MaxBlockSize == 2
MaxByte == 1
StackLimit == 5

Bytes == 0..MaxByte

\* Digest values the abstract hash may produce: 'A', 'B' and the byte 0x9c,
\* which is not valid UTF-8 on its own.
Digests == {65, 66, 156}

\* Option::None for the usize and digest fields
None == -1

Min(a, b) == IF a < b THEN a ELSE b

Last(s) == s[Len(s)]

SeqsUpTo(S, n) == UNION {[1..k -> S] : k \in 0..n}

VARIABLES
    \* ---- src/tree.rs
    data,               \* the bytes of the input stream
    pos,                \* bytes of the stream consumed so far
    block_size,         \* self.block_size
    num_blocks,         \* self.num_blocks
    nodes,              \* self.nodes
    index,              \* from_data's local `index`
    unprocessed_nodes,  \* build's argument in the current frame
    nodes_to_process,   \* build's local
    parents,            \* build's local
    depth,              \* number of build frames on the stack
    reads,              \* chunk reads that reached the stream
    readFailed,         \* a read of the stream returned Err
    pc,                 \* position in from_data/build
    result,             \* how from_data ended
    sha,                \* the hash function, as far as it has been applied
    \* ---- impl PartialEq for tree.rs HashTree
    a, b,               \* the two trees compared
    eqAB, eqBA, eqAA,   \* a == b, b == a, a == a
    eqPc,
    \* ---- src/hashtree.rs
    fLen,               \* length of the file in bytes
    fPos,               \* bytes of the file consumed so far
    fBuf,               \* from_file's `buf`, as segments of the file
    fNodes,             \* from_file's `nodes`
    fBlockNum, fTotal,  \* from_file's `block_num` and `total`
    fTree,              \* from_file's `hashtree`
    fLevel,             \* build's argument `nodes` in the current frame
    fParents,           \* build's local `parents`
    fProcessed,         \* build's local `processed`
    fToProcess,         \* build's local `nodes_to_process`
    fDepth,             \* number of build frames on the stack
    fErr,               \* a read of the file returned Err
    fPc, fResult,
    md5Buf, md5Str,     \* md5::compute on buffers and on merged strings
    \* ---- src/lib.rs
    lData,              \* the bytes the reader delivers
    lPos,               \* bytes of the reader consumed so far
    lBlockSize,         \* strategy.block_size
    lBuf,               \* new's `buf`
    lNodes,             \* new's `nodes`
    lBlockNum, lTotal,  \* new's `block_num` and `total`
    lDone,              \* new's `done`
    lTree,              \* new's `hashtree`
    lLevel,             \* build's argument `nodes` in the current frame
    lParents,           \* build's local `parents`
    lProcessed,         \* build's local `processed`
    lToProcess,         \* build's local `nodes_to_process`
    lClone,             \* tree.clone()
    lEq,                \* tree == tree_clone
    lPc, lResult,
    lHashed,            \* the byte sequences hashed to make the leaves
    lSha                \* strategy.hash_function, as far as applied

treeVars == <<data, pos, block_size, num_blocks, nodes, index,
              unprocessed_nodes, nodes_to_process, parents, depth, reads,
              readFailed, pc, result, sha>>
eqVars == <<a, b, eqAB, eqBA, eqAA, eqPc>>
fileVars == <<fLen, fPos, fBuf, fNodes, fBlockNum, fTotal, fTree, fLevel,
              fParents, fProcessed, fToProcess, fDepth, fErr, fPc, fResult,
              md5Buf, md5Str>>
libVars == <<lData, lPos, lBlockSize, lBuf, lNodes, lBlockNum, lTotal, lDone,
             lTree, lLevel, lParents, lProcessed, lToProcess, lClone, lEq,
             lPc, lResult, lHashed, lSha>>
vars == <<treeVars, eqVars, fileVars, libVars>>

\* ------------------------------------------------------------ hashing
\* String::from_utf8 of a digest: a lone byte is valid UTF-8 iff it is ASCII.
FromUtf8Ok(d) == d < 128

\* hasher.update(bytes); hasher.finalize() gives d: d is any digest if the
\* bytes were never hashed before, and the same digest as before otherwise.
Agrees(table, bytes, d) == bytes \in DOMAIN table => d = table[bytes]
Remember(table, bytes, d) ==
    [x \in DOMAIN table \cup {bytes} |-> IF x = bytes THEN d ELSE table[x]]

HashGives(bytes, d) ==
    /\ d \in Digests
    /\ Agrees(sha, bytes, d)
    /\ sha' = Remember(sha, bytes, d)

\* format!("{:x?}", h) of a String: the string between double quotes.
Quote == 34
DebugFmt(h) == <<Quote, h, Quote>>

\* format!("{:x?}{:x?}", n1.hash, n2.hash)
MergedHash(h1, h2) == DebugFmt(h1) \o DebugFmt(h2)

\* ------------------------------------------------------------ tree.rs
Node(h, i, l, r) == [hash |-> h, index |-> i, left |-> l, right |-> r]

\* HashTree::new(block_size)
NewTree(bs) == [nodes |-> <<>>, num_blocks |-> 0, block_size |-> bs]

\* Accessors
is_empty(t) == IF Len(t.nodes) = 0 THEN TRUE ELSE FALSE
root_hash(t) == IF Len(t.nodes) > 0 THEN Last(t.nodes).hash ELSE None
num_nodes(t) == Len(t.nodes)
NumBlocks(t) == t.num_blocks

InitOthersEq ==
    /\ a = NewTree(0) /\ b = NewTree(0)
    /\ eqAB = FALSE /\ eqBA = FALSE /\ eqAA = FALSE /\ eqPc = "idle"
InitOthersFile ==
    /\ fLen = 0 /\ fPos = 0 /\ fBuf = <<>> /\ fNodes = <<>>
    /\ fBlockNum = 0 /\ fTotal = 0 /\ fTree = <<>> /\ fLevel = <<>>
    /\ fParents = <<>> /\ fProcessed = 0 /\ fToProcess = 0 /\ fDepth = 0
    /\ fErr = FALSE /\ fPc = "idle" /\ fResult = "None"
    /\ md5Buf = <<>> /\ md5Str = <<>>
InitOthersLib ==
    /\ lData = <<>> /\ lPos = 0 /\ lBlockSize = 1 /\ lBuf = <<>>
    /\ lNodes = <<>> /\ lBlockNum = 0 /\ lTotal = 0 /\ lDone = FALSE
    /\ lTree = <<>> /\ lLevel = <<>> /\ lParents = <<>> /\ lProcessed = 0
    /\ lToProcess = 0 /\ lClone = <<>> /\ lEq = FALSE /\ lPc = "idle"
    /\ lResult = "None" /\ lHashed = <<>> /\ lSha = <<>>
InitOthersTree ==
    /\ data = <<>> /\ pos = 0 /\ block_size = 1 /\ num_blocks = 0
    /\ nodes = <<>> /\ index = 0 /\ unprocessed_nodes = <<>>
    /\ nodes_to_process = 0 /\ parents = <<>> /\ depth = 0 /\ reads = 0
    /\ readFailed = FALSE /\ pc = "idle" /\ result = "None"
    /\ sha = <<>>

\* HashTree::new(block_size) has run and from_data(data) is entered.
Init ==
    /\ data \in SeqsUpTo(Bytes, MaxLen)
    /\ block_size \in 0..MaxBlockSize
    /\ pos = 0
    /\ num_blocks = NewTree(block_size).num_blocks
    /\ nodes = NewTree(block_size).nodes
    /\ index = 0
    /\ unprocessed_nodes = <<>>
    /\ nodes_to_process = 0
    /\ parents = <<>>
    /\ depth = 0
    /\ reads = 0
    /\ readFailed = FALSE
    /\ pc = "read"
    /\ result = "None"
    /\ sha = <<>>
    /\ InitOthersEq /\ InitOthersFile /\ InitOthersLib

\* from_data returns Err(e) / Ok(self), or the thread unwinds or aborts.
Finish(r) == pc' = "done" /\ result' = r

\* One iteration of from_data's read loop: data.take(block_size)
\* .read_to_end(&mut buf) succeeds with n bytes; n = 0 breaks, otherwise the
\* block is hashed and its leaf appended.  Take does not touch the stream
\* when its limit is 0.
FromDataIter ==
    /\ pc = "read"
    /\ LET n == Min(block_size, Len(data) - pos)
           buf == SubSeq(data, pos + 1, pos + n)
       IN  /\ reads' = IF block_size = 0 THEN reads ELSE reads + 1
           /\ IF n = 0
              THEN /\ pc' = "pad"
                   /\ UNCHANGED <<pos, nodes, index, result, sha>>
              ELSE \E d \in Digests :
                   /\ HashGives(buf, d)
                   /\ pos' = pos + n
                   /\ IF FromUtf8Ok(d)
                      THEN /\ nodes' = Append(nodes, Node(d, index, None, None))
                           /\ index' = index + 1
                           /\ UNCHANGED <<pc, result>>
                      ELSE /\ Finish("Err")
                           /\ UNCHANGED <<nodes, index>>
    /\ UNCHANGED <<data, block_size, num_blocks, unprocessed_nodes,
                   nodes_to_process, parents, depth, readFailed>>
    /\ UNCHANGED <<eqVars, fileVars, libVars>>

\* The read of a chunk fails: `?` returns the error from from_data.
ReadError ==
    /\ pc = "read"
    /\ block_size > 0
    /\ reads' = reads + 1
    /\ readFailed' = TRUE
    /\ Finish("Err")
    /\ UNCHANGED <<data, pos, block_size, num_blocks, nodes, index,
                   unprocessed_nodes, nodes_to_process, parents, depth, sha>>
    /\ UNCHANGED <<eqVars, fileVars, libVars>>

\* Odd number of leaves: clone the last one; then self.build(self.nodes.clone())
PadAndCall ==
    /\ pc = "pad"
    /\ nodes' = IF Len(nodes) % 2 = 1 THEN Append(nodes, Last(nodes))
                                      ELSE nodes
    /\ unprocessed_nodes' = nodes'
    /\ depth' = 1
    /\ pc' = "build"
    /\ UNCHANGED <<data, pos, block_size, num_blocks, index, nodes_to_process,
                   parents, reads, readFailed, result, sha>>
    /\ UNCHANGED <<eqVars, fileVars, libVars>>

\* Entry of build: a level of one node is the root and every frame returns
\* Ok(()), so from_data returns Ok(self).
BuildEnter ==
    /\ pc = "build"
    /\ IF Len(unprocessed_nodes) = 1
       THEN /\ Finish("Ok")
            /\ UNCHANGED <<nodes_to_process, parents>>
       ELSE /\ nodes_to_process' = Len(unprocessed_nodes)
            /\ parents' = <<>>
            /\ pc' = "while"
            /\ UNCHANGED result
    /\ UNCHANGED <<data, pos, block_size, num_blocks, nodes, index,
                   unprocessed_nodes, depth, reads, readFailed, sha>>
    /\ UNCHANGED <<eqVars, fileVars, libVars>>

\* One iteration of build's while loop.  pop_front().unwrap() panics on an
\* empty deque.
BuildPair ==
    /\ pc = "while"
    /\ nodes_to_process > 0
    /\ IF Len(unprocessed_nodes) < 2
       THEN /\ Finish("Panic")
            /\ UNCHANGED <<nodes, unprocessed_nodes, nodes_to_process,
                           parents, sha>>
       ELSE LET n1 == unprocessed_nodes[1]
                n2 == unprocessed_nodes[2]
            IN  \E d \in Digests :
                /\ HashGives(MergedHash(n1.hash, n2.hash), d)
                /\ IF FromUtf8Ok(d)
                   THEN LET parent == Node(d, Len(nodes), n1.index, n2.index)
                        IN  /\ parents' = Append(parents, parent)
                            /\ nodes' = Append(nodes, parent)
                            /\ unprocessed_nodes' =
                                   SubSeq(unprocessed_nodes, 3,
                                          Len(unprocessed_nodes))
                            /\ nodes_to_process' = nodes_to_process - 1
                            /\ UNCHANGED <<pc, result>>
                   ELSE /\ Finish("Err")
                        /\ UNCHANGED <<nodes, unprocessed_nodes,
                                       nodes_to_process, parents>>
    /\ UNCHANGED <<data, pos, block_size, num_blocks, index, depth, reads,
                   readFailed>>
    /\ UNCHANGED <<eqVars, fileVars, libVars>>

\* The while loop is over: self.build(parents)
BuildRecurse ==
    /\ pc = "while"
    /\ nodes_to_process = 0
    /\ depth < StackLimit
    /\ unprocessed_nodes' = parents
    /\ depth' = depth + 1
    /\ pc' = "build"
    /\ UNCHANGED <<data, pos, block_size, num_blocks, nodes, index,
                   nodes_to_process, parents, reads, readFailed, result, sha>>
    /\ UNCHANGED <<eqVars, fileVars, libVars>>

\* The recursion has used up the stack: the process aborts.
StackOverflow ==
    /\ pc = "while"
    /\ nodes_to_process = 0
    /\ depth = StackLimit
    /\ Finish("StackOverflow")
    /\ UNCHANGED <<data, pos, block_size, num_blocks, nodes, index,
                   unprocessed_nodes, nodes_to_process, parents, depth, reads,
                   readFailed, sha>>
    /\ UNCHANGED <<eqVars, fileVars, libVars>>

Next ==
    \/ FromDataIter
    \/ ReadError
    \/ PadAndCall
    \/ BuildEnter
    \/ BuildPair
    \/ BuildRecurse
    \/ StackOverflow

Spec == Init /\ [][Next]_vars

\* The tree from_data works on and returns
self == [nodes |-> nodes, num_blocks |-> num_blocks, block_size |-> block_size]

TypeOK ==
    /\ pc \in {"read", "pad", "build", "while", "done"}
    /\ result \in {"None", "Ok", "Err", "Panic", "StackOverflow"}
    /\ (pc = "done") = (result # "None")

\* ------------------------------------------------- claims about tree.rs
CeilDiv(L, B) == (L + B - 1) \div B

RECURSIVE NodesLaw(_)
NodesLaw(n) ==
    IF n <= 1 THEN 1
    ELSE LET p == n + (n % 2) IN p + NodesLaw(p \div 2)

\* The bytes of block i (0-based) of the stream
Block(i) ==
    SubSeq(data, i * block_size + 1, Min((i + 1) * block_size, Len(data)))

\* The read loop is over and no error was returned: `self` is the tree that
\* build completes and from_data returns.
LeavesRead == pc \in {"pad", "build", "while"} \/ result = "Ok"

\* C1: for a non-empty input of length L and block_size B > 0 whose reads all
\* succeed, the tree reports num_blocks() = ceil(L / B).
C1_NumBlocksIsCeil ==
    (LeavesRead /\ Len(data) > 0 /\ block_size > 0)
        => NumBlocks(self) = CeilDiv(Len(data), block_size)

\* C2: an input that yields n >= 1 blocks makes from_data return a tree with
\* num_nodes() = nodes(n), nodes(1) = 1, nodes(n) = p + nodes(p / 2) with
\* p = n + (n mod 2).  Nodes are only ever appended, so the arena of the tree
\* under construction may not exceed nodes(n) either.
C2_NumNodesLaw ==
    /\ (LeavesRead /\ index >= 1) => num_nodes(self) <= NodesLaw(index)
    /\ (pc = "done" /\ index >= 1 /\ result # "Err")
           => (result = "Ok" /\ num_nodes(self) = NodesLaw(index))

\* C4: for an empty stream and block_size > 0, from_data returns a tree with
\* num_blocks() = 0, root_hash() = None and is_empty() = true.
C4_EmptyInputReturnsEmptyTree ==
    (pc = "done" /\ Len(data) = 0 /\ block_size > 0 /\ ~readFailed)
        => /\ result = "Ok"
           /\ NumBlocks(self) = 0
           /\ root_hash(self) = None
           /\ is_empty(self)

\* C5: from_data returns an error only when a read of the stream failed, and
\* returns Ok(tree) whenever every read succeeded.
C5_ErrOnlyFromRead ==
    /\ result = "Err" => readFailed
    /\ (pc = "done" /\ ~readFailed /\ block_size > 0) => result = "Ok"

\* C7: with block_size = 0, from_data is rejected with an error before any
\* read: once from_data has taken a step it has ended with Err and has not
\* touched the stream.
C7_ZeroBlockSizeRejected ==
    (block_size = 0 /\ pc # "read") => (result = "Err" /\ reads = 0)

\* C9: for n >= 2 blocks every paired level has an even number of nodes, each
\* pairing step the loop still has to run finds its two nodes (so size/2
\* parents are produced per level), and the build never pops an exhausted
\* level.
C9_PairsExist ==
    index >= 2 =>
        /\ result # "Panic"
        /\ pc = "while" => Len(unprocessed_nodes) % 2 = 0
        /\ pc = "while" => 2 * nodes_to_process <= Len(unprocessed_nodes)

IsLeaf(n) == n.left = None /\ n.right = None

\* C10: position i of the arena holds the node with index i; the first
\* `number of blocks` positions hold the leaves in block order; every later
\* node is a parent whose children are at smaller positions; the last
\* position of the returned tree is the root (no node has it as a child).
C10_ArenaLayout ==
    /\ \A i \in 1..Len(nodes) :
          /\ nodes[i].index = i - 1
          /\ i <= index =>
                 /\ IsLeaf(nodes[i])
                 /\ Block(i - 1) \in DOMAIN sha
                 /\ nodes[i].hash = sha[Block(i - 1)]
          /\ i > index =>
                 /\ nodes[i].left \in 0..(i - 2)
                 /\ nodes[i].right \in 0..(i - 2)
    /\ (result = "Ok" /\ Len(nodes) > 0) =>
          \A i \in 1..Len(nodes) :
              /\ nodes[i].left # Len(nodes) - 1
              /\ nodes[i].right # Len(nodes) - 1

\* ------------------------------------ tree.rs: impl PartialEq for HashTree
\* The comparison as lib.rs writes it: two trees without a root are unequal.
EqNoneUnequal(s, o) ==
    IF root_hash(s) # None /\ root_hash(o) # None
    THEN root_hash(s) = root_hash(o)
    ELSE FALSE

\* fn eq(&self, other: &Self) -> bool
Eq(s, o) ==
    IF root_hash(s) = None
    THEN (IF root_hash(o) # None THEN FALSE ELSE TRUE)
    ELSE IF root_hash(o) = None
         THEN FALSE
         ELSE root_hash(s) = root_hash(o)

\* Digests that are Strings, as Node.hash is
StringDigests == {d \in Digests : FromUtf8Ok(d)}

\* An arena of up to three nodes with the given hashes: two leaves, then their
\* parent.
ArenaOf(hs) ==
    [i \in 1..Len(hs) |->
        IF i <= 2 THEN Node(hs[i], i - 1, None, None)
                  ELSE Node(hs[i], i - 1, 0, 1)]

MaxArena == 3

EqTrees ==
    {[nodes |-> ArenaOf(hs), num_blocks |-> 0, block_size |-> bs] :
        hs \in SeqsUpTo(StringDigests, MaxArena), bs \in 0..MaxBlockSize}

InitEq ==
    /\ a \in EqTrees
    /\ b \in EqTrees
    /\ eqAB = FALSE /\ eqBA = FALSE /\ eqAA = FALSE
    /\ eqPc = "start"
    /\ InitOthersTree /\ InitOthersFile /\ InitOthersLib

\* a == b, b == a and a == a are evaluated
EqCompare ==
    /\ eqPc = "start"
    /\ eqAB' = Eq(a, b)
    /\ eqBA' = Eq(b, a)
    /\ eqAA' = Eq(a, a)
    /\ eqPc' = "done"
    /\ UNCHANGED <<a, b, treeVars, fileVars, libVars>>

NextEq == EqCompare

SpecEq == InitEq /\ [][NextEq]_vars

\* C3: a == b iff both trees are empty, or both are non-empty and the hashes
\* of their last nodes are equal; an empty tree never equals a non-empty one;
\* == is reflexive and symmetric.
C3_EqIffRootsEqual ==
    eqPc = "done" =>
        /\ eqAB <=> \/ Len(a.nodes) = 0 /\ Len(b.nodes) = 0
                    \/ /\ Len(a.nodes) > 0 /\ Len(b.nodes) > 0
                       /\ a.nodes[Len(a.nodes)].hash = b.nodes[Len(b.nodes)].hash
        /\ (Len(a.nodes) = 0) # (Len(b.nodes) = 0) => ~eqAB
        /\ eqAA
        /\ eqAB <=> eqBA

\* Two different non-empty arenas with the same last hash compared equal.
C3_Witness ==
    /\ eqPc = "done"
    /\ Len(a.nodes) = 1 /\ Len(b.nodes) = 3
    /\ a.nodes[1].hash # b.nodes[1].hash
    /\ eqAB /\ eqBA

\* --------------------------------------------------------- hashtree.rs
BLOCK_SIZE == 4096

MaxFileBlocks == 2

\* File lengths around the multiples of BLOCK_SIZE
FileLens ==
    {k * BLOCK_SIZE + r : k \in 0..MaxFileBlocks, r \in {0, 1, BLOCK_SIZE - 1}}

\* Sizes of reads that return fewer bytes than asked for and available
ShortReads == {1}

\* `buf` holds BLOCK_SIZE bytes, described as a sequence of segments: bytes
\* lo .. hi-1 of the file, or hi - lo zero bytes of the initial [0u8; BLOCK_SIZE].
Segment(src, lo, hi) == [src |-> src, lo |-> lo, hi |-> hi]

RECURSIVE DropBytes(_, _)
DropBytes(segs, n) ==
    IF n = 0 \/ segs = <<>> THEN segs
    ELSE LET sg == segs[1]
             len == sg.hi - sg.lo
         IN  IF len <= n THEN DropBytes(Tail(segs), n - len)
             ELSE <<Segment(sg.src, sg.lo + n, sg.hi)>> \o Tail(segs)

\* reader.read(&mut buf) returning n bytes from offset p overwrites buf[0..n]
ReadInto(buf, p, n) ==
    IF n = 0 THEN buf ELSE <<Segment("file", p, p + n)>> \o DropBytes(buf, n)

\* HashTreeNode::new(block_tag, hash); Option<Box<_>> is <<>> or <<node>>
HashTreeNode(tag, h) == [block_tag |-> tag, hash |-> h, left |-> <<>>, right |-> <<>>]

\* the '+' of format!("{} + {}", n1.block(), n2.block())
PlusSign == 43

\* from_file(path) is entered
InitFile ==
    /\ fLen \in FileLens
    /\ fPos = 0 /\ fBuf = <<>> /\ fNodes = <<>>
    /\ fBlockNum = 0 /\ fTotal = 0 /\ fTree = <<>> /\ fLevel = <<>>
    /\ fParents = <<>> /\ fProcessed = 0 /\ fToProcess = 0 /\ fDepth = 0
    /\ fErr = FALSE /\ fPc = "open" /\ fResult = "None"
    /\ md5Buf = <<>> /\ md5Str = <<>>
    /\ InitOthersTree /\ InitOthersEq /\ InitOthersLib

\* File::open(path)? succeeds; buf, reader, nodes and counters are set up
FileOpen ==
    /\ fPc = "open"
    /\ fBuf' = <<Segment("zero", 0, BLOCK_SIZE)>>
    /\ fPc' = "read"
    /\ UNCHANGED <<fLen, fPos, fNodes, fBlockNum, fTotal, fTree, fLevel,
                   fParents, fProcessed, fToProcess, fDepth, fErr, fResult,
                   md5Buf, md5Str>>
    /\ UNCHANGED <<treeVars, eqVars, libVars>>

\* File::open(path)? fails
FileOpenError ==
    /\ fPc = "open"
    /\ fPc' = "done"
    /\ fResult' = "Err"
    /\ UNCHANGED <<fLen, fPos, fBuf, fNodes, fBlockNum, fTotal, fTree, fLevel,
                   fParents, fProcessed, fToProcess, fDepth, fErr, md5Buf,
                   md5Str>>
    /\ UNCHANGED <<treeVars, eqVars, libVars>>

\* After the read loop: HashTree::new(block_num), num_nodes += nodes.len(),
\* hashtree.build(nodes)
StartBuild(ns, blocks) ==
    /\ fTree' = [root |-> <<>>, num_nodes |-> 0 + Len(ns), num_blocks |-> blocks]
    /\ fLevel' = ns
    /\ fDepth' = 1
    /\ fPc' = "build"

\* One iteration of the read loop in which reader.read(&mut buf) is Ok
FileRead ==
    /\ fPc = "read"
    /\ LET full == Min(BLOCK_SIZE, fLen - fPos)
       IN  \E bytes_read \in {full} \cup {k \in ShortReads : k < full} :
           LET done == bytes_read < BLOCK_SIZE
               buf == ReadInto(fBuf, fPos, bytes_read)
           IN  \E d \in Digests :
               /\ Agrees(md5Buf, buf, d)
               /\ md5Buf' = Remember(md5Buf, buf, d)
               /\ fBuf' = buf
               /\ fPos' = fPos + bytes_read
               /\ fNodes' = Append(fNodes, HashTreeNode(<<fBlockNum>>, d))
               /\ fTotal' = fTotal + bytes_read
               /\ fBlockNum' = fBlockNum + 1
               /\ IF done
                  THEN StartBuild(fNodes', fBlockNum')
                  ELSE UNCHANGED <<fTree, fLevel, fDepth, fPc>>
    /\ UNCHANGED <<fLen, fParents, fProcessed, fToProcess, fErr, fResult,
                   md5Str>>
    /\ UNCHANGED <<treeVars, eqVars, libVars>>

\* reader.read(&mut buf) is Err: the error is printed and the loop is left
FileReadError ==
    /\ fPc = "read"
    /\ fErr' = TRUE
    /\ StartBuild(fNodes, fBlockNum)
    /\ UNCHANGED <<fLen, fPos, fBuf, fNodes, fBlockNum, fTotal, fParents,
                   fProcessed, fToProcess, fResult, md5Buf, md5Str>>
    /\ UNCHANGED <<treeVars, eqVars, libVars>>

\* Entry of build: a level of one node returns through every frame, and
\* from_file returns Ok(hashtree)
FileBuildEnter ==
    /\ fPc = "build"
    /\ fToProcess' = Len(fLevel)
    /\ IF Len(fLevel) = 1
       THEN /\ fPc' = "done"
            /\ fResult' = "Ok"
            /\ UNCHANGED <<fParents, fProcessed>>
       ELSE /\ fParents' = <<>>
            /\ fProcessed' = 0
            /\ fPc' = "while"
            /\ UNCHANGED fResult
    /\ UNCHANGED <<fLen, fPos, fBuf, fNodes, fBlockNum, fTotal, fTree, fLevel,
                   fDepth, fErr, md5Buf, md5Str>>
    /\ UNCHANGED <<treeVars, eqVars, libVars>>

\* One iteration of build's while loop
FileBuildPair ==
    /\ fPc = "while"
    /\ fProcessed < fToProcess
    /\ IF Len(fLevel) = 0
       THEN /\ fPc' = "done"
            /\ fResult' = "Panic"
            /\ UNCHANGED <<fTree, fLevel, fParents, fProcessed, md5Str>>
       ELSE LET n1 == fLevel[1]
                n2 == IF Len(fLevel) >= 2 THEN fLevel[2] ELSE n1
                block_tag == n1.block_tag \o <<PlusSign>> \o n2.block_tag
                merged_hash == <<n1.hash, n2.hash>>
            IN  \E d \in Digests :
                /\ Agrees(md5Str, merged_hash, d)
                /\ md5Str' = Remember(md5Str, merged_hash, d)
                /\ fParents' = Append(fParents,
                       [HashTreeNode(block_tag, d)
                            EXCEPT !.left = <<n1>>, !.right = <<n2>>])
                /\ fLevel' = SubSeq(fLevel, 3, Len(fLevel))
                /\ fProcessed' = fProcessed + 2
                /\ fTree' = [fTree EXCEPT !.num_nodes = @ + 1]
                /\ UNCHANGED <<fPc, fResult>>
    /\ UNCHANGED <<fLen, fPos, fBuf, fNodes, fBlockNum, fTotal, fToProcess,
                   fDepth, fErr, md5Buf>>
    /\ UNCHANGED <<treeVars, eqVars, libVars>>

\* The while loop is over: self.build(parents)
FileBuildRecurse ==
    /\ fPc = "while"
    /\ fProcessed >= fToProcess
    /\ fDepth < StackLimit
    /\ fLevel' = fParents
    /\ fDepth' = fDepth + 1
    /\ fPc' = "build"
    /\ UNCHANGED <<fLen, fPos, fBuf, fNodes, fBlockNum, fTotal, fTree,
                   fParents, fProcessed, fToProcess, fErr, fResult, md5Buf,
                   md5Str>>
    /\ UNCHANGED <<treeVars, eqVars, libVars>>

\* The recursion has used up the stack: the process aborts.
FileStackOverflow ==
    /\ fPc = "while"
    /\ fProcessed >= fToProcess
    /\ fDepth = StackLimit
    /\ fPc' = "done"
    /\ fResult' = "StackOverflow"
    /\ UNCHANGED <<fLen, fPos, fBuf, fNodes, fBlockNum, fTotal, fTree, fLevel,
                   fParents, fProcessed, fToProcess, fDepth, fErr, md5Buf,
                   md5Str>>
    /\ UNCHANGED <<treeVars, eqVars, libVars>>

NextFile ==
    \/ FileOpen
    \/ FileOpenError
    \/ FileRead
    \/ FileReadError
    \/ FileBuildEnter
    \/ FileBuildPair
    \/ FileBuildRecurse
    \/ FileStackOverflow

SpecFile == InitFile /\ [][NextFile]_vars

\* C6: if a read of the file failed, from_file returns the error; it never
\* returns Ok with a tree built from the blocks read before the failure.
C6_ReadErrorAborts ==
    (fErr /\ fPc = "done") => fResult = "Err"

\* -------------------------------------------------------------- lib.rs
\* format!("{:?}", digest): one character per abstract digest
DebugDigest(d) == <<d>>

\* build on a level of one node: self.root = nodes.pop_front(), never stored
RootNotStored(level) == <<>>

\* build on a level of one node: self.root = nodes.pop_front()
PopFrontRoot(level) == IF level = <<>> THEN <<>> ELSE <<level[1]>>

\* #[derive(Clone)] for HashTree<T>
Clone(t) ==
    [root |-> t.root, num_nodes |-> t.num_nodes, num_blocks |-> t.num_blocks]

\* impl PartialEq for HashTree<T>: both roots are Some and their hashes equal
EqLib(s, o) ==
    IF s.root # <<>>
    THEN IF o.root # <<>> THEN s.root[1].hash = o.root[1].hash ELSE FALSE
    ELSE FALSE

\* HashTree::new(reader, strategy) is entered, with block_size > 0
InitLib ==
    /\ lData \in SeqsUpTo(Bytes, MaxLen)
    /\ lBlockSize \in 1..MaxBlockSize
    /\ lPos = 0
    /\ lBuf = [i \in 1..lBlockSize |-> 0]
    /\ lNodes = <<>> /\ lBlockNum = 0 /\ lTotal = 0 /\ lDone = FALSE
    /\ lTree = <<>> /\ lLevel = <<>> /\ lParents = <<>> /\ lProcessed = 0
    /\ lToProcess = 0 /\ lClone = <<>> /\ lEq = FALSE /\ lPc = "read"
    /\ lResult = "None" /\ lHashed = <<>> /\ lSha = <<>>
    /\ InitOthersTree /\ InitOthersEq /\ InitOthersFile

\* The sizes reader.read(&mut buf) may return: 0 only at the end of the
\* stream, otherwise between 1 and what is left, at most buf.len()
ReadSizes(rem, cap) == IF rem = 0 \/ cap = 0 THEN {0} ELSE 1..Min(rem, cap)

\* One iteration of `while !done` in which reader.read(&mut buf) is Ok.  When
\* the loop ends, the tree is created and build(nodes) is called.
LibRead ==
    /\ lPc = "read"
    /\ ~lDone
    /\ \E bytes_read \in ReadSizes(Len(lData) - lPos, Len(lBuf)) :
       LET buf == SubSeq(lData, lPos + 1, lPos + bytes_read)
                    \o SubSeq(lBuf, bytes_read + 1, Len(lBuf))
       IN  \E d \in Digests :
           /\ Agrees(lSha, buf, d)
           /\ lSha' = Remember(lSha, buf, d)
           /\ lHashed' = Append(lHashed, buf)
           /\ lBuf' = buf
           /\ lPos' = lPos + bytes_read
           /\ lDone' = IF bytes_read < lBlockSize THEN TRUE ELSE lDone
           /\ lNodes' = Append(lNodes, HashTreeNode(<<lBlockNum>>, d))
           /\ lTotal' = lTotal + Len(buf)
           /\ lBlockNum' = lBlockNum + 1
           /\ IF lDone'
              THEN /\ lTree' = [root |-> <<>>, num_nodes |-> Len(lNodes'),
                                num_blocks |-> 0]
                   /\ lLevel' = lNodes'
                   /\ lPc' = "build"
              ELSE UNCHANGED <<lTree, lLevel, lPc>>
    /\ UNCHANGED <<lData, lBlockSize, lParents, lProcessed, lToProcess,
                   lClone, lEq, lResult>>
    /\ UNCHANGED <<treeVars, eqVars, fileVars>>

\* reader.read(&mut buf)? is Err: new returns the error
LibReadError ==
    /\ lPc = "read"
    /\ ~lDone
    /\ lPc' = "done"
    /\ lResult' = "Err"
    /\ UNCHANGED <<lData, lPos, lBlockSize, lBuf, lNodes, lBlockNum, lTotal,
                   lDone, lTree, lLevel, lParents, lProcessed, lToProcess,
                   lClone, lEq, lHashed, lSha>>
    /\ UNCHANGED <<treeVars, eqVars, fileVars>>

\* Entry of build: a level of one node becomes the root, every frame
\* returns and new returns Ok(hashtree)
LibBuildEnter ==
    /\ lPc = "build"
    /\ lToProcess' = Len(lLevel)
    /\ IF Len(lLevel) = 1
       THEN /\ lTree' = [lTree EXCEPT !.root = PopFrontRoot(lLevel)]
            /\ lLevel' = Tail(lLevel)
            /\ lPc' = "done"
            /\ lResult' = "Ok"
            /\ UNCHANGED <<lParents, lProcessed>>
       ELSE /\ lParents' = <<>>
            /\ lProcessed' = 0
            /\ lPc' = "while"
            /\ UNCHANGED <<lTree, lLevel, lResult>>
    /\ UNCHANGED <<lData, lPos, lBlockSize, lBuf, lNodes, lBlockNum, lTotal,
                   lDone, lClone, lEq, lHashed, lSha>>
    /\ UNCHANGED <<treeVars, eqVars, fileVars>>

\* One iteration of build's while loop
LibBuildPair ==
    /\ lPc = "while"
    /\ lProcessed < lToProcess
    /\ IF Len(lLevel) = 0
       THEN /\ lPc' = "done"
            /\ lResult' = "Panic"
            /\ UNCHANGED <<lTree, lLevel, lParents, lProcessed, lSha>>
       ELSE LET n1 == lLevel[1]
                n2 == IF Len(lLevel) >= 2 THEN lLevel[2] ELSE n1
                block_tag == n1.block_tag \o <<PlusSign>> \o n2.block_tag
                merged_hash == DebugDigest(n1.hash) \o DebugDigest(n2.hash)
            IN  \E d \in Digests :
                /\ Agrees(lSha, merged_hash, d)
                /\ lSha' = Remember(lSha, merged_hash, d)
                /\ lParents' = Append(lParents,
                       [HashTreeNode(block_tag, d)
                            EXCEPT !.left = <<n1>>, !.right = <<n2>>])
                /\ lLevel' = SubSeq(lLevel, 3, Len(lLevel))
                /\ lProcessed' = lProcessed + 2
                /\ lTree' = [lTree EXCEPT !.num_nodes = @ + 1]
                /\ UNCHANGED <<lPc, lResult>>
    /\ UNCHANGED <<lData, lPos, lBlockSize, lBuf, lNodes, lBlockNum, lTotal,
                   lDone, lToProcess, lClone, lEq, lHashed>>
    /\ UNCHANGED <<treeVars, eqVars, fileVars>>

\* The while loop is over: self.build(parents, strategy)
LibBuildRecurse ==
    /\ lPc = "while"
    /\ lProcessed >= lToProcess
    /\ lLevel' = lParents
    /\ lPc' = "build"
    /\ UNCHANGED <<lData, lPos, lBlockSize, lBuf, lNodes, lBlockNum, lTotal,
                   lDone, lTree, lParents, lProcessed, lToProcess, lClone,
                   lEq, lResult, lHashed, lSha>>
    /\ UNCHANGED <<treeVars, eqVars, fileVars>>

\* let tree_clone = tree.clone(); tree == tree_clone
LibCompare ==
    /\ lPc = "done"
    /\ lResult = "Ok"
    /\ lClone' = Clone(lTree)
    /\ lEq' = EqLib(lTree, lClone')
    /\ lPc' = "compared"
    /\ UNCHANGED <<lData, lPos, lBlockSize, lBuf, lNodes, lBlockNum, lTotal,
                   lDone, lTree, lLevel, lParents, lProcessed, lToProcess,
                   lResult, lHashed, lSha>>
    /\ UNCHANGED <<treeVars, eqVars, fileVars>>

NextLib ==
    \/ LibRead
    \/ LibReadError
    \/ LibBuildEnter
    \/ LibBuildPair
    \/ LibBuildRecurse
    \/ LibCompare

SpecLib == InitLib /\ [][NextLib]_vars

\* C8: every tree t returned by HashTree::new(reader, strategy) with
\* block_size > 0 satisfies t == t.clone().
C8_EqualsItsClone ==
    lPc = "compared" => lEq

\* A tree of three leaves (so with a duplicated last node on the way up) was
\* returned and compared equal to its clone.
C8_Witness ==
    /\ lPc = "compared"
    /\ lBlockNum = 3
    /\ lTree.num_nodes = 6
    /\ lTree.root # <<>>
    /\ lClone = lTree
    /\ lEq

\* ------------------------------------------- lib.rs: the bytes of the leaves
RECURSIVE Flatten(_)
Flatten(ss) == IF ss = <<>> THEN <<>> ELSE ss[1] \o Flatten(Tail(ss))

\* The read loop of new has ended without an error: every leaf was made.
LibLeavesMade == lPc \in {"build", "while", "compared"} \/ lResult = "Ok"

\* C11: for every stream and block_size B > 0, the byte sequences hashed to
\* make the leaves are each at most B bytes long and, concatenated in leaf
\* order, are the input stream exactly: no leaf for an empty stream or after
\* the last byte, no digest over bytes outside its own block.
C11_LeavesAreTheStream ==
    LibLeavesMade =>
        /\ \A i \in 1..Len(lHashed) : Len(lHashed[i]) <= lBlockSize
        /\ Flatten(lHashed) = lData
        /\ lData = <<>> => lHashed = <<>>
====
